---- MODULE Spec2Model ----
(***************************************************************************)
(* Model of s3dxrd/utils/postprocessing.py: alphashape (coordinate         *)
(* transform, voxelisation, padding, isosurface, projection onto original  *)
(* points, transform back) and find_best_approximations (greedy            *)
(* without-replacement projection with an infinite-coordinate sentinel).   *)
(*                                                                         *)
(* Real coordinates are exact rationals <<n, d>>.  Pool coordinates are    *)
(* tagged values <<tag, v>>: "fin" (the number v), "inf" (float infinity), *)
(* "imin"/"imax" (what an int64 slot holds after a float infinity was      *)
(* cast into it by compiled code).  Mesh vertices lie on half-integers     *)
(* and are stored as twice their value.                                    *)
(***************************************************************************)
EXTENDS Integers, Sequences, FiniteSets

\* ------------------------------------------------------------- bounds
MaxCloud == 2
MaxPool == 2
MaxVerts == 2

\* sample spacing in microns (the 25. of transform_scale)
SPACING == 25

\* ------------------------------------------------- exact rationals
Abs(x) == IF x < 0 THEN -x ELSE x

RECURSIVE GCD(_, _)
GCD(a, b) == IF b = 0 THEN a ELSE GCD(b, a % b)

Rat(n, d) ==
    LET s == IF d < 0 THEN -1 ELSE 1
        g == GCD(Abs(n), Abs(d))
    IN  <<(s * n) \div g, (s * d) \div g>>

R(n) == <<n, 1>>
RAdd(a, b) == Rat(a[1] * b[2] + b[1] * a[2], a[2] * b[2])
RSub(a, b) == Rat(a[1] * b[2] - b[1] * a[2], a[2] * b[2])
RMul(a, b) == Rat(a[1] * b[1], a[2] * b[2])
RAbs(a) == <<Abs(a[1]), a[2]>>
RLt(a, b) == a[1] * b[2] < b[1] * a[2]
RLeq(a, b) == a[1] * b[2] <= b[1] * a[2]

\* int(x): truncation toward zero
PyInt(a) == IF a[1] >= 0 THEN a[1] \div a[2] ELSE -((-a[1]) \div a[2])

\* np.around(x).astype(int): round to nearest, exact halves to even
Around(a) ==
    LET fl == a[1] \div a[2]
        rem == a[1] % a[2]
    IN  IF 2 * rem < a[2] THEN fl
        ELSE IF 2 * rem > a[2] THEN fl + 1
        ELSE IF fl % 2 = 0 THEN fl ELSE fl + 1

\* ------------------------------------------- 4x4 homogeneous matrices
Sum4(t) == RAdd(RAdd(RAdd(t[1], t[2]), t[3]), t[4])
Row(r, x) == Sum4(<<RMul(r[1], x[1]), RMul(r[2], x[2]), RMul(r[3], x[3]), RMul(r[4], x[4])>>)
MatVec(A, x) == <<Row(A[1], x), Row(A[2], x), Row(A[3], x), Row(A[4], x)>>
Col(B, j) == <<B[1][j], B[2][j], B[3][j], B[4][j]>>
RowMat(r, B) == <<Row(r, Col(B, 1)), Row(r, Col(B, 2)), Row(r, Col(B, 3)), Row(r, Col(B, 4))>>
MatMul(A, B) == <<RowMat(A[1], B), RowMat(A[2], B), RowMat(A[3], B), RowMat(A[4], B)>>

Diag(s) ==
    << <<s, R(0), R(0), R(0)>>,
       <<R(0), s, R(0), R(0)>>,
       <<R(0), R(0), s, R(0)>>,
       <<R(0), R(0), R(0), R(1)>> >>

Translate(t) ==
    << <<R(1), R(0), R(0), R(t[1])>>,
       <<R(0), R(1), R(0), R(t[2])>>,
       <<R(0), R(0), R(1), R(t[3])>>,
       <<R(0), R(0), R(0), R(1)>> >>

transform_scale == Diag(R(SPACING))
inv_transform_scale == Diag(Rat(1, SPACING))
transform_direction(s) == Translate(<<-s[1], -s[2], -s[3]>>)
InvDirectionNegated(s) == Translate(<<-s[1], -s[2], -s[3]>>)
inv_transform_direction(s) == Translate(<<s[1], s[2], s[3]>>)

\* np.hstack((p, 1)): a point as a homogeneous column
Hom(p) == <<p[1], p[2], p[3], R(1)>>

\* ------------------------------------------------ extrema and shift
RMaxOf(S) == CHOOSE m \in S : \A x \in S : RLeq(x, m)
RMinOf(S) == CHOOSE m \in S : \A x \in S : RLeq(m, x)
Axis(vc, k) == {vc[i][k] : i \in 1..Len(vc)}
amax(vc) == <<RMaxOf(Axis(vc, 1)), RMaxOf(Axis(vc, 2)), RMaxOf(Axis(vc, 3))>>
amin(vc) == <<RMinOf(Axis(vc, 1)), RMinOf(Axis(vc, 2)), RMinOf(Axis(vc, 3))>>

\* np.argmin over the two rows of np.absolute(stacked), one column
StackArgminLast(stacked, k) ==
    IF RLt(RAbs(stacked[1][k]), RAbs(stacked[2][k])) THEN 1 ELSE 2
StackArgmin(stacked, k) ==
    IF RLeq(RAbs(stacked[1][k]), RAbs(stacked[2][k])) THEN 1 ELSE 2

min_absolute_value(a1, a2) ==
    LET stacked == <<a1, a2>>
    IN  <<PyInt(stacked[StackArgmin(stacked, 1)][1]),
          PyInt(stacked[StackArgmin(stacked, 2)][2]),
          PyInt(stacked[StackArgmin(stacked, 3)][3])>>

\* --------------------------------------- float arithmetic on pool slots
\* A float is <<"fin", v>>, <<"huge", m>> (m # 0 times 2^63, which absorbs
\* every finite addend of the model), <<"inf", sign>> or <<"nan", 0>>.
Fin(v) == <<"fin", v>>
NaN == <<"nan", 0>>
Sign(n) == IF n < 0 THEN -1 ELSE 1

\* normal[k] * point[k]
FMul(n, c) ==
    CASE c[1] = "fin" -> Fin(n * c[2])
      [] c[1] = "inf" -> IF n = 0 THEN NaN ELSE <<"inf", Sign(n)>>
      [] c[1] = "imin" -> IF n = 0 THEN Fin(0) ELSE <<"huge", -n>>
      [] c[1] = "imax" -> IF n = 0 THEN Fin(0) ELSE <<"huge", n>>

FAdd(a, b) ==
    IF a[1] = "nan" \/ b[1] = "nan" THEN NaN
    ELSE IF a[1] = "inf"
         THEN IF b[1] = "inf" /\ b[2] # a[2] THEN NaN ELSE a
    ELSE IF b[1] = "inf" THEN b
    ELSE IF a[1] = "huge"
         THEN IF b[1] = "huge"
              THEN IF a[2] + b[2] = 0 THEN Fin(0) ELSE <<"huge", a[2] + b[2]>>
              ELSE a
    ELSE IF b[1] = "huge" THEN b
    ELSE Fin(a[2] + b[2])

\* np.absolute
FAbs(a) == IF a[1] = "nan" THEN a ELSE <<a[1], Abs(a[2])>>

\* a < b on non-negative, non-NaN floats
Rank(a) == CASE a[1] = "fin" -> 0 [] a[1] = "huge" -> 1 [] a[1] = "inf" -> 2
FLt(a, b) ==
    \/ Rank(a) < Rank(b)
    \/ Rank(a) = Rank(b) /\ a[1] # "inf" /\ a[2] < b[2]

\* distances[ii] of lines 155-157 for one point, times the positive factor
\* 2 * norm(normal) that is common to all points of one vertex (vertices
\* are stored doubled; normals are non-zero integer vectors).
PlaneDistance(point, vertex, normal) ==
    LET d == Fin(-normal[1] * vertex[1] - normal[2] * vertex[2] - normal[3] * vertex[3])
    IN  FAdd(FAdd(FAdd(FMul(2 * normal[1], point[1]),
                       FMul(2 * normal[2], point[2])),
                  FMul(2 * normal[3], point[3])), d)

\* np.argmin: the first NaN if there is one, else the first least element
argmin(a) ==
    LET nans == {i \in 1..Len(a) : a[i][1] = "nan"}
    IN  IF nans # {}
        THEN CHOOSE i \in nans : \A k \in nans : i <= k
        ELSE CHOOSE i \in 1..Len(a) :
                 \A k \in 1..Len(a) : ~FLt(a[k], a[i]) /\ (k < i => FLt(a[i], a[k]))

IsFinite(p) == p[1][1] = "fin" /\ p[2][1] = "fin" /\ p[3][1] = "fin"

\* ------------------------------------------------------- voxel grid
\* voxels[x, y, z] = 1: a negative index counts from the end of the axis
InRange(x, n) == -n <= x /\ x < n
Wrap(x, n) == IF x < 0 THEN x + n ELSE x

\* ----------------------------------------------------- marching cubes
\* measure.marching_cubes at the default level (0.5 on a 0/1 grid): one
\* vertex at the midpoint of every grid edge joining an occupied and an
\* empty cell, with the normal along that edge.  Vertices are doubled.
\* The routine's emission order is fixed; lexicographic order stands for it.
Unit(k, s) == <<IF k = 1 THEN s ELSE 0, IF k = 2 THEN s ELSE 0, IF k = 3 THEN s ELSE 0>>
VAdd(a, b) == <<a[1] + b[1], a[2] + b[2], a[3] + b[3]>>
InGrid(c, sh) == \A k \in 1..3 : 0 <= c[k] /\ c[k] < sh[k]

SurfaceEdges(vox, sh) ==
    {<<a, u>> \in vox \X {Unit(k, s) : k \in 1..3, s \in {-1, 1}} :
        InGrid(VAdd(a, u), sh) /\ VAdd(a, u) \notin vox}

LexLt(u, v) ==
    \/ u[1] < v[1]
    \/ u[1] = v[1] /\ u[2] < v[2]
    \/ u[1] = v[1] /\ u[2] = v[2] /\ u[3] < v[3]

RECURSIVE SortedSeq(_)
SortedSeq(S) ==
    IF S = {} THEN <<>>
    ELSE LET m == CHOOSE x \in S : \A y \in S \ {x} : LexLt(x[1], y[1])
         IN  <<m>> \o SortedSeq(S \ {m})

\* <<vertex (doubled), normal>> pairs in emission order
marching_cubes(vox, sh) ==
    SortedSeq({<<VAdd(VAdd(e[1], e[1]), e[2]), e[2]>> : e \in SurfaceEdges(vox, sh)})

\* ------------------------------------------------------------ inputs
SeqsUpTo(S, n) == UNION {[1..k -> S] : k \in 0..n}

\* point clouds handed to alphashape, in microns
CloudPoints ==
    { <<R(0), R(0), R(0)>>,      <<R(25), R(0), R(0)>>,
      <<R(50), R(25), R(0)>>,    <<R(-50), R(0), R(0)>>,
      <<R(-25), R(-25), R(25)>>, <<R(15), R(-25), R(0)>>,
      <<R(40), R(0), R(25)>>,    <<Rat(25, 2), R(0), R(0)>> }

\* pools, vertices (doubled) and normals of a direct call of
\* find_best_approximations
PoolPoints == { <<Fin(0), Fin(0), Fin(0)>>, <<Fin(1), Fin(0), Fin(0)>>,
                <<Fin(0), Fin(1), Fin(0)>> }
MeshVertices == { <<1, 0, 0>>, <<2, 1, 0>> }
MeshNormals == { <<1, 0, 0>>, <<1, -1, 0>>, <<1, 1, 1>> }

\* ------------------------------------------------------------- state
VARIABLES
    entry,              \* which function the caller invoked
    plot,               \* alphashape's plot argument
    dtype,              \* element type of the pool array: "float" or "int"
    cast,               \* what storing float infinity in an int64 slot does
    pc,                 \* position in the code
    err,                \* the exception that ended the call, or "none"
    coords,             \* alphashape's coords argument
    voxel_coords,       \* lines 64 and 72: homogeneous voxel-space columns
    max_vals, min_vals, \* lines 66-67
    shift,              \* line 68
    voxel_volume_size,  \* line 74
    shape,              \* shape of the voxels array, <<>> before allocation
    voxels,             \* cells of the voxels array that hold 1
    written,            \* number of passes of the loop of line 78
    verts, normals,     \* the mesh: vertices (doubled) and normals
    verts_coords,       \* line 88
    fba_coords,         \* the pool: find_best_approximations' coords array
    pool0,              \* the pool as it was when the projection began
    best_approximations,
    minds,              \* the minind of every vertex processed so far
    approx_coords,      \* line 92
    ret                 \* what the entry function returned

vars == <<entry, plot, dtype, cast, pc, err, coords, voxel_coords, max_vals,
          min_vals, shift, voxel_volume_size, shape, voxels, written, verts,
          normals, verts_coords, fba_coords, pool0, best_approximations,
          minds, approx_coords, ret>>

InitAlphashape ==
    /\ entry = "alphashape"
    /\ plot \in BOOLEAN
    /\ dtype = "int"
    /\ cast \in {"raise", "min", "max"}
    /\ pc = "start"
    /\ coords \in SeqsUpTo(CloudPoints, MaxCloud)
    /\ verts = <<>> /\ normals = <<>>
    /\ fba_coords = <<>>

InitProjection ==
    /\ entry = "find_best_approximations"
    /\ plot = FALSE
    /\ \/ dtype = "float" /\ cast = "none"
       \/ dtype = "int" /\ cast \in {"raise", "min", "max"}
    /\ pc = "call"
    /\ coords = <<>>
    /\ fba_coords \in SeqsUpTo(PoolPoints, MaxPool)
    /\ \E mesh \in SeqsUpTo(MeshVertices \X MeshNormals, MaxVerts) :
          /\ verts = [i \in 1..Len(mesh) |-> mesh[i][1]]
          /\ normals = [i \in 1..Len(mesh) |-> mesh[i][2]]

Init ==
    /\ InitAlphashape \/ InitProjection
    /\ err = "none"
    /\ voxel_coords = <<>>
    /\ max_vals = <<>> /\ min_vals = <<>> /\ shift = <<>>
    /\ voxel_volume_size = <<>>
    /\ shape = <<>> /\ voxels = {}
    /\ written = 0
    /\ verts_coords = <<>>
    /\ pool0 = <<>>
    /\ best_approximations = <<>>
    /\ minds = <<>>
    /\ approx_coords = <<>>
    /\ ret = <<"unset">>

\* ------------------------------------------------------- alphashape
\* lines 60-64
Scale ==
    /\ pc = "start"
    /\ voxel_coords' = [i \in 1..Len(coords) |-> MatVec(inv_transform_scale, Hom(coords[i]))]
    /\ pc' = "scaled"
    /\ UNCHANGED <<entry, plot, dtype, cast, err, coords, max_vals, min_vals,
                   shift, voxel_volume_size, shape, voxels, written, verts,
                   normals, verts_coords, fba_coords, pool0,
                   best_approximations, minds, approx_coords, ret>>

\* lines 66-72; np.amax of a zero-size axis raises ValueError
ExtremaNoRaise ==
    /\ pc = "scaled"
    /\ IF Len(coords) = 0
       THEN /\ max_vals' = <<R(0), R(0), R(0)>>
            /\ min_vals' = <<R(0), R(0), R(0)>>
       ELSE /\ max_vals' = amax(voxel_coords)
            /\ min_vals' = amin(voxel_coords)
    /\ shift' = min_absolute_value(max_vals', min_vals')
    /\ voxel_coords' = [i \in 1..Len(coords) |->
                           MatVec(transform_direction(shift'), voxel_coords[i])]
    /\ pc' = "shifted"
    /\ UNCHANGED <<entry, plot, dtype, cast, err, coords, voxel_volume_size,
                   shape, voxels, written, verts, normals, verts_coords,
                   fba_coords, pool0, best_approximations, minds,
                   approx_coords, ret>>

Extrema ==
    /\ pc = "scaled"
    /\ IF Len(coords) = 0
       THEN /\ pc' = "error"
            /\ err' = "ValueError"
            /\ UNCHANGED <<max_vals, min_vals, shift, voxel_coords>>
       ELSE /\ max_vals' = amax(voxel_coords)
            /\ min_vals' = amin(voxel_coords)
            /\ shift' = min_absolute_value(max_vals', min_vals')
            /\ voxel_coords' = [i \in 1..Len(coords) |->
                                   MatVec(transform_direction(shift'), voxel_coords[i])]
            /\ pc' = "shifted"
            /\ err' = err
    /\ UNCHANGED <<entry, plot, dtype, cast, coords, voxel_volume_size, shape,
                   voxels, written, verts, normals, verts_coords, fba_coords,
                   pool0, best_approximations, minds, approx_coords, ret>>

\* lines 74-77; the rounded array of line 77 is the pool handed to
\* find_best_approximations (voxel_coords keeps the unrounded columns here)
Allocate ==
    /\ pc = "shifted"
    /\ voxel_volume_size' = <<Around(RSub(max_vals[1], min_vals[1])),
                              Around(RSub(max_vals[2], min_vals[2])),
                              Around(RSub(max_vals[3], min_vals[3]))>>
    /\ shape' = <<voxel_volume_size'[1] + 1, voxel_volume_size'[2] + 1,
                  voxel_volume_size'[3] + 1>>
    /\ voxels' = {}
    /\ fba_coords' = [i \in 1..Len(voxel_coords) |->
                         <<Fin(Around(voxel_coords[i][1])),
                           Fin(Around(voxel_coords[i][2])),
                           Fin(Around(voxel_coords[i][3]))>>]
    /\ written' = 0
    /\ pc' = "write"
    /\ UNCHANGED <<entry, plot, dtype, cast, err, coords, voxel_coords,
                   max_vals, min_vals, shift, verts, normals, verts_coords,
                   pool0, best_approximations, minds, approx_coords, ret>>

\* lines 78-79, one pass of the loop
WriteVoxel ==
    /\ pc = "write"
    /\ written < Len(fba_coords)
    /\ LET p == fba_coords[written + 1]
           x == p[1][2]
           y == p[2][2]
           z == p[3][2]
       IN  IF InRange(x, shape[1]) /\ InRange(y, shape[2]) /\ InRange(z, shape[3])
           THEN /\ voxels' = voxels \cup
                       {<<Wrap(x, shape[1]), Wrap(y, shape[2]), Wrap(z, shape[3])>>}
                /\ UNCHANGED <<pc, err>>
           ELSE /\ pc' = "error"
                /\ err' = "IndexError"
                /\ UNCHANGED voxels
    /\ written' = written + 1
    /\ UNCHANGED <<entry, plot, dtype, cast, coords, voxel_coords, max_vals,
                   min_vals, shift, voxel_volume_size, shape, verts, normals,
                   verts_coords, fba_coords, pool0, best_approximations,
                   minds, approx_coords, ret>>

\* line 84
Pad ==
    /\ pc = "write"
    /\ written = Len(fba_coords)
    /\ voxels' = {<<c[1] + 1, c[2] + 1, c[3] + 1>> : c \in voxels}
    /\ shape' = <<shape[1] + 2, shape[2] + 2, shape[3] + 2>>
    /\ pc' = "padded"
    /\ UNCHANGED <<entry, plot, dtype, cast, err, coords, voxel_coords,
                   max_vals, min_vals, shift, voxel_volume_size, written,
                   verts, normals, verts_coords, fba_coords, pool0,
                   best_approximations, minds, approx_coords, ret>>

\* lines 86-88
MarchingCubes ==
    /\ pc = "padded"
    /\ LET mesh == marching_cubes(voxels, shape)
           back == MatMul(transform_scale, inv_transform_direction(shift))
       IN  /\ verts' = [i \in 1..Len(mesh) |-> mesh[i][1]]
           /\ normals' = [i \in 1..Len(mesh) |-> mesh[i][2]]
           /\ verts_coords' = [i \in 1..Len(mesh) |->
                  MatVec(back, <<Rat(mesh[i][1][1], 2), Rat(mesh[i][1][2], 2),
                                 Rat(mesh[i][1][3], 2), R(1)>>)]
    /\ pc' = "call"
    /\ UNCHANGED <<entry, plot, dtype, cast, err, coords, voxel_coords,
                   max_vals, min_vals, shift, voxel_volume_size, shape,
                   voxels, written, fba_coords, pool0, best_approximations,
                   minds, approx_coords, ret>>

\* ------------------------------------------ find_best_approximations
\* what line 167 leaves in a pool slot
Sentinel ==
    CASE dtype = "float" -> <<"inf", 1>>
      [] cast = "min" -> <<"imin", 0>>
      [] cast = "max" -> <<"imax", 0>>
      [] OTHER -> <<"inf", 1>>

Unconsumed(c) == {i \in 1..Len(c) : IsFinite(c[i])}

\* line 149
FbaEnter ==
    /\ pc = "call"
    /\ best_approximations' = [i \in 1..Len(normals) |-> <<Fin(0), Fin(0), Fin(0)>>]
    /\ pool0' = fba_coords
    /\ minds' = <<>>
    /\ pc' = "loop"
    /\ UNCHANGED <<entry, plot, dtype, cast, err, coords, voxel_coords,
                   max_vals, min_vals, shift, voxel_volume_size, shape,
                   voxels, written, verts, normals, verts_coords, fba_coords,
                   approx_coords, ret>>

\* lines 151-167, one pass of the loop over the vertices
FbaVertex ==
    /\ pc = "loop"
    /\ Len(minds) < Len(verts)
    /\ LET j == Len(minds) + 1
           distances == [ii \in 1..Len(fba_coords) |->
                            FAbs(PlaneDistance(fba_coords[ii], verts[j], normals[j]))]
       IN  IF Len(fba_coords) = 0
           THEN \* np.argmin of an empty array
                /\ pc' = "error"
                /\ err' = "ValueError"
                /\ UNCHANGED <<best_approximations, minds, fba_coords>>
           ELSE LET minind == argmin(distances)
                IN  /\ best_approximations' =
                           [best_approximations EXCEPT ![j] = fba_coords[minind]]
                    /\ minds' = Append(minds, minind)
                    /\ IF dtype = "int" /\ cast = "raise"
                       THEN /\ pc' = "error"
                            /\ err' = "OverflowError"
                            /\ UNCHANGED fba_coords
                       ELSE /\ fba_coords' = [fba_coords EXCEPT
                                   ![minind] = <<Sentinel, Sentinel, Sentinel>>]
                            /\ UNCHANGED <<pc, err>>
    /\ UNCHANGED <<entry, plot, dtype, cast, coords, voxel_coords, max_vals,
                   min_vals, shift, voxel_volume_size, shape, voxels, written,
                   verts, normals, verts_coords, pool0, approx_coords>>
    /\ UNCHANGED ret

\* line 168
FbaReturn ==
    /\ pc = "loop"
    /\ Len(minds) = Len(verts)
    /\ IF entry = "find_best_approximations"
       THEN /\ ret' = <<"array", best_approximations>>
            /\ pc' = "done"
       ELSE /\ pc' = "approx"
            /\ UNCHANGED ret
    /\ UNCHANGED <<entry, plot, dtype, cast, err, coords, voxel_coords,
                   max_vals, min_vals, shift, voxel_volume_size, shape,
                   voxels, written, verts, normals, verts_coords, fba_coords,
                   pool0, best_approximations, minds, approx_coords>>

\* ------------------------------------------------ alphashape, the end
\* lines 91-92; a slot that holds a cast infinity stays out of range
TransformBack ==
    /\ pc = "approx"
    /\ LET back == MatMul(transform_scale, inv_transform_direction(shift))
       IN  approx_coords' = [i \in 1..Len(best_approximations) |->
               LET b == best_approximations[i]
               IN  IF IsFinite(b)
                   THEN MatVec(back, <<R(b[1][2]), R(b[2][2]), R(b[3][2]), R(1)>>)
                   ELSE b]
    /\ pc' = "plot"
    /\ UNCHANGED <<entry, plot, dtype, cast, err, coords, voxel_coords,
                   max_vals, min_vals, shift, voxel_volume_size, shape,
                   voxels, written, verts, normals, verts_coords, fba_coords,
                   pool0, best_approximations, minds, ret>>

\* lines 111-132: the figures are drawn when plot is set; the function
\* then falls off its end ("# return result")
Finish ==
    /\ pc = "plot"
    /\ ret' = <<"None">>
    /\ pc' = "done"
    /\ UNCHANGED <<entry, plot, dtype, cast, err, coords, voxel_coords,
                   max_vals, min_vals, shift, voxel_volume_size, shape,
                   voxels, written, verts, normals, verts_coords, fba_coords,
                   pool0, best_approximations, minds, approx_coords>>

Next ==
    \/ Scale
    \/ Extrema
    \/ Allocate
    \/ WriteVoxel
    \/ Pad
    \/ MarchingCubes
    \/ FbaEnter
    \/ FbaVertex
    \/ FbaReturn
    \/ TransformBack
    \/ Finish

Spec == Init /\ [][Next]_vars

\* ======================================================= properties
FbaFinished == pc \in {"approx", "plot"} \/ (pc = "done" /\ Len(minds) = Len(verts))
FbaRaised == pc = "error" /\ (err = "OverflowError" \/ entry = "find_best_approximations")

\* C1: when find_best_approximations finishes on a pool at least as large
\* as the mesh, the entries of its result are pairwise different pool
\* slots, each holding the original coordinates of that slot and none the
\* consumption sentinel.
C1_DistinctOriginalPoints ==
    (FbaFinished /\ Len(pool0) >= Len(verts)) =>
        /\ \A i, k \in 1..Len(minds) : i # k => minds[i] # minds[k]
        /\ \A i \in 1..Len(minds) :
              /\ IsFinite(best_approximations[i])
              /\ best_approximations[i] = pool0[minds[i]]

\* C2: with more vertices than pool points the projection never returns a
\* map; it ends in an error raised at the first vertex for which no
\* unconsumed pool point remains (the vertex after the last pool point).
C2_ExhaustionRaised ==
    /\ FbaFinished => Len(verts) <= Len(pool0)
    /\ (FbaRaised /\ Len(verts) > Len(pool0)) => Len(minds) = Len(pool0)

\* C3: every rounded voxel index that alphashape writes lies between 0 and
\* round(max - min) on each axis.
C3_IndicesInGrid ==
    (entry = "alphashape" /\ pc \in {"write", "padded", "error"} /\ shape # <<>>) =>
        \A i \in 1..written : \A k \in 1..3 :
            0 <= fba_coords[i][k][2] /\ fba_coords[i][k][2] <= voxel_volume_size[k]

\* C4: alphashape returns the real-space coordinates of the alpha-shape
\* points (approx_coords), for either value of plot.
C4_ReturnsApproxCoords ==
    (entry = "alphashape" /\ pc = "done") => ret = <<"array", approx_coords>>

\* C5: an empty point cloud ends alphashape in an error before the voxel
\* grid is allocated or written and before any later stage is entered.
C5_EmptyCloudRejected ==
    (entry = "alphashape" /\ Len(coords) = 0) =>
        /\ pc \in {"start", "scaled", "error"}
        /\ pc = "error" => err = "ValueError"
        /\ shape = <<>> /\ voxels = {} /\ written = 0
        /\ verts = <<>> /\ minds = <<>> /\ fba_coords = <<>>
        /\ ret = <<"unset">>

C5_Witness ==
    entry = "alphashape" /\ Len(coords) = 0 /\ pc = "error" /\ err = "ValueError"

\* C6: the inverse map (translate by +shift, then scale by 25) undoes the
\* forward map (scale by 1/25, then translate by -shift): the inverse of
\* every voxel-space column is the real point it came from, and the forward
\* map takes that point back to the same column.
C6_InverseUndoesForward ==
    (entry = "alphashape" /\ shift # <<>>) =>
        LET inverse == MatMul(transform_scale, inv_transform_direction(shift))
            forward == MatMul(transform_direction(shift), inv_transform_scale)
        IN  \A i \in 1..Len(coords) :
                /\ MatVec(inverse, voxel_coords[i]) = Hom(coords[i])
                /\ MatVec(forward, MatVec(inverse, voxel_coords[i])) = voxel_coords[i]

C6_Witness ==
    /\ entry = "alphashape" /\ pc = "shifted" /\ Len(coords) = 2
    /\ shift[1] # 0 /\ shift[2] # 0
    /\ voxel_coords[1] # voxel_coords[2]

\* the extremum of axis k with the smaller absolute value, the maximum on a tie
NearerExtremum(k) ==
    IF RLt(RAbs(min_vals[k]), RAbs(max_vals[k])) THEN min_vals[k] ELSE max_vals[k]

ExtremaOfCloud(k) ==
    LET vals == {RMul(Rat(1, SPACING), coords[i][k]) : i \in 1..Len(coords)}
    IN  /\ max_vals[k] \in vals /\ min_vals[k] \in vals
        /\ \A x \in vals : RLeq(min_vals[k], x) /\ RLeq(x, max_vals[k])

TrueDistance(q, j) ==
    Abs(normals[j][1] * (2 * pool0[q][1][2] - verts[j][1])
        + normals[j][2] * (2 * pool0[q][2][2] - verts[j][2])
        + normals[j][3] * (2 * pool0[q][3][2] - verts[j][3]))

\* C7: every vertex, in mesh order, is assigned a pool point that was not
\* consumed by an earlier vertex and that minimises |d| over the points
\* not yet consumed, the one with the lowest pool index among equals
\* (stated for the vertices that still find an unconsumed point).
C7_GreedyFirstMinimum ==
    \A j \in 1..Len(minds) :
        LET remaining == (1..Len(pool0)) \ {minds[i] : i \in 1..(j - 1)}
        IN  remaining # {} =>
            /\ minds[j] \in remaining
            /\ \A q \in remaining :
                  /\ TrueDistance(minds[j], j) <= TrueDistance(q, j)
                  /\ TrueDistance(q, j) = TrueDistance(minds[j], j) => minds[j] <= q

\* C8: during a projection pass the number of unconsumed pool points never
\* increases, and a vertex never selects a slot that is already consumed
\* (stated for the vertices that still find an unconsumed point).
C8_ConsumedNeverSelected ==
    [][pc = "loop" =>
          /\ Cardinality(Unconsumed(fba_coords')) <= Cardinality(Unconsumed(fba_coords))
          /\ (Len(minds') > Len(minds) /\ Unconsumed(fba_coords) # {}) =>
                 minds'[Len(minds')] \in Unconsumed(fba_coords)]_vars

\* C10: the mesh vertices handed to find_best_approximations are in the
\* frame of the pool: every vertex lies half a cell from a written pool
\* index along one axis.
C10_VerticesInPoolFrame ==
    (entry = "alphashape" /\ pc = "call") =>
        \A j \in 1..Len(verts) :
            \E i \in 1..Len(fba_coords) : \E k \in 1..3 : \E s \in {-1, 1} :
                verts[j] = VAdd(<<2 * fba_coords[i][1][2], 2 * fba_coords[i][2][2],
                                  2 * fba_coords[i][3][2]>>, Unit(k, s))
====
